---- MODULE Spec2Model ----
(***************************************************************************)
(* Model of the two scripts of the Bassett Associates Omeka workflow:      *)
(*   omeka_upload_data.py            move files, build upload.csv, upload  *)
(*   extract_omeka_csv_export_data.py  reconcile identifiers.csv against   *)
(*                                     export.csv, append upload.csv to    *)
(*                                     items.csv                           *)
(*                                                                         *)
(* A text (a Python str that the code splits or joins) is a sequence of    *)
(* atoms.  An atom is either one of the delimiter characters "_", ".",     *)
(* "/", "," or a non-empty run of other characters.  Texts are normalised: *)
(* two runs are never adjacent, and no run used in a file name is a proper *)
(* prefix of another, so that splitting, joining and comparing atom by     *)
(* atom coincide with doing it character by character.  Cells that the     *)
(* code only copies are plain strings.                                     *)
(***************************************************************************)
EXTENDS Integers, Sequences, FiniteSets, TLC

\* ------------------------------------------------------------------ bounds
MaxFiles == 3

MaxRows == 2

MaxExport == 2

MaxRuns == 2

\* ------------------------------------------------------- global variables
USE_BACKUP_DATA == FALSE

DIRECTORY_SUBPATH == <<"first", "/", "second", "/", "third", "/">>

S3_BUCKET == <<"bassettassociates">>

ACCEPTED_EXTENSIONS == {"tif", "jpg", "png", "gif", "pdf"}

FORMAT_MAP ==
  [e \in {"jpg", "png", "tif", "gif", "pdf"} |->
     CASE e = "jpg" -> "image/jpeg"
       [] e = "png" -> "image/png"
       [] e = "tif" -> "image/tiff"
       [] e = "gif" -> "image/gif"
       [] e = "pdf" -> "application/pdf"]

ORIGINAL_FORMAT_MAP ==
  [c \in {"ph", "sk", "pl", "mo", "di", "po", "rp"} |->
     CASE c = "ph" -> "photo"
       [] c = "sk" -> "sketch"
       [] c = "pl" -> "plan"
       [] c = "mo" -> "model"
       [] c = "di" -> "diagram"
       [] c = "po" -> "poster"
       [] c = "rp" -> "printed report"]

CREATOR_MAP ==
  [c \in {"ph", "sk", "pl", "mo", "di", "po", "rp"} |->
     IF c = "sk" THEN "James H. Bassett" ELSE "Bassett Associates"]

LANGUAGE_MAP == [c \in {"sk", "pl", "po", "rp"} |-> "en"]

TAGS_MAP ==
  [t \in {"zoo", "cmp", "cbd", "mrf", "pvt", "glf", "exhibit", "kcz", "ftw",
          "col", "cha", "eri", "bin", "bla", "hen", "bre", "lou", "sco",
          "onu", "blu", "omr", "oli", "bgu", "bat", "fin", "lim", "bel",
          "tif", "man", "yng", "cap", "chi", "amf", "ana", "tra", "use",
          "gavin", "crouse", "haw", "sug", "art", "report"} |->
     CASE t = "zoo" -> "zoo"
       [] t = "cmp" -> "campus"
       [] t = "cbd" -> "downtown"
       [] t = "mrf" -> "Muirfield"
       [] t = "pvt" -> "private estate"
       [] t = "glf" -> "golf"
       [] t = "exhibit" -> "2001 exhibit"
       [] t = "kcz" -> "Kansas City"
       [] t = "ftw" -> "Fort Wayne"
       [] t = "col" -> "Columbus"
       [] t = "cha" -> "Chaffee"
       [] t = "eri" -> "Erie"
       [] t = "bin" -> "Binder Park"
       [] t = "bla" -> "Blank Park"
       [] t = "hen" -> "Henson Robinson"
       [] t = "bre" -> "Brevard"
       [] t = "lou" -> "Louisville"
       [] t = "sco" -> "Scovill"
       [] t = "onu" -> "ONU"
       [] t = "blu" -> "Bluffton"
       [] t = "omr" -> "OSU-Marion"
       [] t = "oli" -> "OSU-Lima"
       [] t = "bgu" -> "BGSU"
       [] t = "bat" -> "Bath"
       [] t = "fin" -> "Findlay"
       [] t = "lim" -> "Lima"
       [] t = "bel" -> "Bellefontaine"
       [] t = "tif" -> "Tiffin"
       [] t = "man" -> "Mansfield"
       [] t = "yng" -> "Youngstown"
       [] t = "cap" -> "Capital Square"
       [] t = "chi" -> "Chillicothe"
       [] t = "amf" -> "AmeriFlora"
       [] t = "ana" -> "analysis"
       [] t = "tra" -> "transportation"
       [] t = "use" -> "land use planning"
       [] t = "gavin" -> "Gavin"
       [] t = "crouse" -> "Crouse"
       [] t = "haw" -> "Hawthorn Hills"
       [] t = "sug" -> "Sugar Creek"
       [] t = "art" -> "artwork"
       [] t = "report" -> "report"]

\* ------------------------------------------------------ Python str methods
\* str.split(sep): the pieces between the occurrences of sep, at least one.
RECURSIVE Split(_, _)
Split(s, sep) ==
  IF \A i \in 1..Len(s) : s[i] # sep
  THEN <<s>>
  ELSE LET i == CHOOSE k \in 1..Len(s) :
                   s[k] = sep /\ \A m \in 1..(k - 1) : s[m] # sep
       IN  <<SubSeq(s, 1, i - 1)>> \o Split(SubSeq(s, i + 1, Len(s)), sep)

\* sep.join(list)
RECURSIVE Join(_, _)
Join(list, sep) ==
  IF Len(list) = 0 THEN <<>>
  ELSE IF Len(list) = 1 THEN list[1]
  ELSE list[1] \o <<sep>> \o Join(Tail(list), sep)

\* list[-1]
LastOf(list) == list[Len(list)]

\* list[:2]
FirstTwo(list) == SubSeq(list, 1, IF Len(list) < 2 THEN Len(list) ELSE 2)

\* os.path.splitext(name)[0] of a name without directory separators: cut at
\* the last dot unless only dots come before it.
SplitExtRoot(name) ==
  LET dots == {i \in 1..Len(name) : name[i] = "."}
  IN  IF dots = {} THEN name
      ELSE LET d == CHOOSE i \in dots : \A k \in dots : k <= i
           IN  IF \E k \in 1..(d - 1) : name[k] # "."
               THEN SubSeq(name, 1, d - 1)
               ELSE name

\* A run of characters as the cell value the code looks up: the token when
\* it is a single run, a value no table holds otherwise.
AsKey(token) == IF Len(token) = 1 THEN token[1] ELSE "(not a single run)"

\* str(n) of a non-negative int, digit by digit.
RECURSIVE DecStr(_)
DecStr(n) ==
  LET digit == <<"0", "1", "2", "3", "4", "5", "6", "7", "8", "9">>
  IN  IF n < 10 THEN <<digit[n + 1]>>
      ELSE DecStr(n \div 10) \o <<digit[(n % 10) + 1]>>

\* The atoms of the file names below in the order of Python's str comparison
\* ("." < digits < "_" < lower-case letters).
AtomOrder ==
  <<".", "00", "01", "02", "03", "04", "_", "bmp", "chimp", "gif", "jpg",
    "kcz", "notes", "pdf", "ph", "png", "report", "rp", "sk", "tif", "txt",
    "unknown", "xx", "zoo">>

AtomRank(a) == CHOOSE i \in 1..Len(AtomOrder) : AtomOrder[i] = a

\* a <= b for two str values
TextLeq(a, b) ==
  \/ \E i \in 1..Len(a) :
        /\ i <= Len(b)
        /\ \A k \in 1..(i - 1) : a[k] = b[k]
        /\ AtomRank(a[i]) < AtomRank(b[i])
  \/ /\ Len(a) <= Len(b)
     /\ \A k \in 1..Len(a) : a[k] = b[k]


\* ------------------------------------------------------------------ inputs
\* File names that may lie in the pyramidal TIFFs directory.
FileNames ==
  { <<"zoo", "_", "kcz", "_", "chimp", "_", "ph", "_", "00", ".", "tif">>,
    <<"zoo", "_", "kcz", "_", "chimp", "_", "ph", "_", "00", ".", "jpg">>,
    <<"report", "_", "rp", "_", "01", ".", "pdf">>,
    <<"unknown", "_", "zoo", "_", "sk", "_", "02", ".", "png">>,
    <<"chimp", "_", "xx", "_", "ph", "_", "03", ".", "gif">>,
    <<"zoo", "_", "kcz", "_", "xx", "_", "04", ".", "gif">>,
    <<"zoo", ".", "tif">>,
    <<"notes", ".", "txt">>,
    <<"zoo", "_", "kcz", "_", "ph", "_", "00", ".", "bmp">> }

\* Sequences without repetition of at most n elements of S.
DistinctSeqs(S, n) ==
  UNION { {q \in [1..k -> S] : \A i, j \in 1..k : i # j => q[i] # q[j]} :
          k \in 0..n }

\* Sequences of at most n elements of S.
SeqsUpTo(S, n) == UNION { [1..k -> S] : k \in 0..n }

\* What Image.open(...).size gives: a size, or an exception.
ProbeResults ==
  { [ok |-> FALSE, width |-> 0, height |-> 0],
    [ok |-> TRUE, width |-> 640, height |-> 480] }

VARIABLES
  pc,                \* position of the running script
  drive_mounted,     \* whether UPLOAD_FILE_BASE_DIRECTORY_PATH can be listed
  dir_listing,       \* os.listdir(PYRAMIDAL_TIFFS_DIRECTORY_PATH)
  pyramidal_dir,     \* files in the pyramidal TIFFs directory
  upload_dir,        \* files in the upload directory
  backup_dir,        \* files in the backup directory
  clean_file_list,   \* the files moved, in order
  idx,               \* position of the running loop
  upload_df,         \* the dataframe being built
  upload_csv,        \* upload.csv on disk
  csv_written,       \* upload.csv was written by this run
  s3,                \* files uploaded to the bucket by this run
  attempted,         \* files whose upload was started, in order
  failed,            \* files whose upload raised
  export_csv,        \* export.csv on disk
  identifiers_csv,   \* identifiers.csv on disk
  items_csv,         \* items.csv on disk
  export_df,         \* export.csv as read
  identifiers_df,    \* identifiers.csv as read, updated in place
  pre_identifiers,   \* identifiers.csv as read, as it was before the loop
  pre_items,         \* items.csv as it was when the run began
  runs               \* number of runs of the extract script started

upload_vars ==
  <<drive_mounted, dir_listing, pyramidal_dir, upload_dir, backup_dir,
    clean_file_list, idx, upload_df, csv_written, s3, attempted, failed>>

extract_vars ==
  <<export_csv, identifiers_csv, items_csv, export_df, identifiers_df,
    pre_identifiers, pre_items, runs>>

vars == <<pc, upload_csv, upload_vars, extract_vars>>

\* ------------------------------------------------- omeka_upload_data.py
\* The main section with the upload called before the table is generated.
PhaseAfterUploadFirst(phase) ==
  CASE phase = "check" -> "move"
    [] phase = "move" -> "upload"
    [] phase = "upload" -> "generate"
    [] phase = "generate" -> "done"

\* The order of the calls of the main section.
PhaseAfter(phase) ==
  CASE phase = "check" -> "move"
    [] phase = "move" -> "generate"
    [] phase = "generate" -> "upload"
    [] phase = "upload" -> "done"

\* file.split('.')[-1]
Extension(file) == AsKey(LastOf(Split(file, ".")))

\* The tag list with an empty entry for a part that TAGS_MAP does not hold.
RECURSIVE TagListUnfiltered(_)
TagListUnfiltered(tags) ==
  IF Len(tags) = 0 THEN <<>>
  ELSE << IF AsKey(tags[1]) \in DOMAIN TAGS_MAP
          THEN <<TAGS_MAP[AsKey(tags[1])]>> ELSE <<>> >>
       \o TagListUnfiltered(Tail(tags))

\* Set tags based on the first two parts of the identifier.
RECURSIVE TagList(_)
TagList(tags) ==
  IF Len(tags) = 0 THEN <<>>
  ELSE (IF AsKey(tags[1]) \in DOMAIN TAGS_MAP
        THEN << <<TAGS_MAP[AsKey(tags[1])]>> >>
        ELSE <<>>) \o TagList(Tail(tags))

TagString(image_id) == Join(TagList(FirstTwo(Split(image_id, "_"))), ",")

\* The loop body with dict.get(code, '') lookups: an unknown code gives an
\* empty cell instead of raising.
SynthesizeRowDefaulting(file_name, probe) ==
  LET image_id == SplitExtRoot(file_name)
      parts == Split(image_id, "_")
      original_format_code ==
        IF Len(parts) >= 2 THEN AsKey(parts[Len(parts) - 1]) ELSE ""
      file_extension == Extension(file_name)
      get(map, key) == IF key \in DOMAIN map THEN map[key] ELSE ""
  IN  [raised |-> FALSE,
       row |->
         [identifier |-> image_id,
          dc_rights |-> "Available under a Creative Commons Attribution 4.0 International (CC BY 4.0) license",
          dc_source |-> "Bassett Associates files",
          dc_publisher |-> "James H. Bassett",
          upload_url |->
            <<"https:", "/", "/">> \o S3_BUCKET
              \o <<".", "s3", ".", "amazonaws", ".", "com", "/">>
              \o DIRECTORY_SUBPATH \o file_name,
          original_format |-> get(ORIGINAL_FORMAT_MAP, original_format_code),
          dc_type |-> IF original_format_code = "rp"
                      THEN "Text" ELSE "StillImage",
          physical_dimensions |->
            IF probe.ok
            THEN DecStr(probe.width) \o <<"x">> \o DecStr(probe.height)
            ELSE <<>>,
          dc_format |-> get(FORMAT_MAP, file_extension),
          dc_language |-> get(LANGUAGE_MAP, original_format_code),
          dc_title |-> "",
          dc_description |-> "",
          dc_date |-> "",
          dc_creator |-> get(CREATOR_MAP, original_format_code),
          tags |-> TagString(image_id)]]

\* One pass of the loop body of generate_metadata_csv_for_omeka_upload:
\* the row built for file_name, or raised when a lookup fails.
SynthesizeRow(file_name, probe) ==
  LET image_id == SplitExtRoot(file_name)
      parts == Split(image_id, "_")
      original_format_code ==
        IF Len(parts) >= 2 THEN AsKey(parts[Len(parts) - 1]) ELSE ""
      file_extension == Extension(file_name)
      raised == \/ Len(parts) < 2
                \/ original_format_code \notin DOMAIN ORIGINAL_FORMAT_MAP
                \/ file_extension \notin DOMAIN FORMAT_MAP
                \/ original_format_code \notin DOMAIN CREATOR_MAP
  IN  IF raised THEN [raised |-> TRUE]
      ELSE
        [raised |-> FALSE,
         row |->
           [identifier |-> image_id,
            dc_rights |-> "Available under a Creative Commons Attribution 4.0 International (CC BY 4.0) license",
            dc_source |-> "Bassett Associates files",
            dc_publisher |-> "James H. Bassett",
            upload_url |->
              <<"https:", "/", "/">> \o S3_BUCKET
                \o <<".", "s3", ".", "amazonaws", ".", "com", "/">>
                \o DIRECTORY_SUBPATH \o file_name,
            original_format |-> ORIGINAL_FORMAT_MAP[original_format_code],
            dc_type |-> IF original_format_code = "rp"
                        THEN "Text" ELSE "StillImage",
            physical_dimensions |->
              IF probe.ok
              THEN DecStr(probe.width) \o <<"x">> \o DecStr(probe.height)
              ELSE <<>>,
            dc_format |-> FORMAT_MAP[file_extension],
            dc_language |-> IF original_format_code \in DOMAIN LANGUAGE_MAP
                            THEN LANGUAGE_MAP[original_format_code] ELSE "",
            dc_title |-> "",
            dc_description |-> "",
            dc_date |-> "",
            dc_creator |-> CREATOR_MAP[original_format_code],
            tags |-> TagString(image_id)]]

\* A table keyed by the label: a row under a label already present replaces
\* the row that was there.
AppendRowOverwriting(df, row_series) ==
  IF \E i \in DOMAIN df : df[i].identifier = row_series.identifier
  THEN [i \in DOMAIN df |->
          IF df[i].identifier = row_series.identifier
          THEN row_series ELSE df[i]]
  ELSE Append(df, row_series)

\* upload_df.append(row_series): one more row under the label of the series.
AppendRow(df, row_series) == Append(df, row_series)

\* upload_df.sort_index(): the rows in ascending order of the label; the
\* order of rows with equal labels is whatever the sort leaves.
SortIndex(df) ==
  LET n == Len(df)
      perms == {p \in [1..n -> 1..n] : \A i, j \in 1..n : i # j => p[i] # p[j]}
  IN  { [i \in 1..n |-> df[p[i]]] : p \in
          {q \in perms : \A i \in 1..(n - 1) :
             TextLeq(df[q[i]].identifier, df[q[i + 1]].identifier)} }

\* Try listing files on the UPLOAD_FILE_BASE_DIRECTORY_PATH.
CheckStaging ==
  /\ pc = "check"
  /\ pc' = IF drive_mounted THEN PhaseAfter("check") ELSE "exited"
  /\ idx' = 1
  /\ UNCHANGED <<upload_csv, drive_mounted, dir_listing, pyramidal_dir,
                 upload_dir, backup_dir, clean_file_list, upload_df,
                 csv_written, s3, attempted, failed, extract_vars>>

\* One pass of the loop of move_pyramidal_tiffs_to_upload_subdirectory.
MoveFile ==
  /\ pc = "move"
  /\ idx <= Len(dir_listing)
  /\ LET file == dir_listing[idx]
     IN  IF Extension(file) \in ACCEPTED_EXTENSIONS
         THEN /\ pyramidal_dir' = pyramidal_dir \ {file}
              /\ upload_dir' = upload_dir \cup {file}
              /\ clean_file_list' = Append(clean_file_list, file)
              /\ backup_dir' = IF USE_BACKUP_DATA
                               THEN backup_dir \cup {file} ELSE backup_dir
         ELSE UNCHANGED <<pyramidal_dir, upload_dir, clean_file_list,
                          backup_dir>>
  /\ idx' = idx + 1
  /\ UNCHANGED <<pc, upload_csv, drive_mounted, dir_listing, upload_df,
                 csv_written, s3, attempted, failed, extract_vars>>

\* shutil.move raises: the script ends with the file where it was.
MoveFileFails ==
  /\ pc = "move"
  /\ idx <= Len(dir_listing)
  /\ Extension(dir_listing[idx]) \in ACCEPTED_EXTENSIONS
  /\ pc' = "crashed"
  /\ UNCHANGED <<upload_csv, upload_vars, extract_vars>>

\* return clean_file_list; generate_metadata_csv_for_omeka_upload begins
\* with the empty table of upload_headers.csv.
MoveReturn ==
  /\ pc = "move"
  /\ idx > Len(dir_listing)
  /\ pc' = PhaseAfter("move")
  /\ idx' = 1
  /\ upload_df' = <<>>
  /\ UNCHANGED <<upload_csv, drive_mounted, dir_listing, pyramidal_dir,
                 upload_dir, backup_dir, clean_file_list, csv_written, s3,
                 attempted, failed, extract_vars>>

\* One pass of the loop of generate_metadata_csv_for_omeka_upload.
GenerateRow ==
  /\ pc = "generate"
  /\ idx <= Len(clean_file_list)
  /\ \E probe \in ProbeResults :
       LET r == SynthesizeRow(clean_file_list[idx], probe)
       IN  IF r.raised
           THEN /\ pc' = "crashed"
                /\ UNCHANGED <<idx, upload_df>>
           ELSE /\ upload_df' = AppendRow(upload_df, r.row)
                /\ idx' = idx + 1
                /\ pc' = pc
  /\ UNCHANGED <<upload_csv, drive_mounted, dir_listing, pyramidal_dir,
                 upload_dir, backup_dir, clean_file_list, csv_written, s3,
                 attempted, failed, extract_vars>>

\* After the loop: sort the dataframe by the index and write upload.csv.
GenerateWrite ==
  /\ pc = "generate"
  /\ idx > Len(clean_file_list)
  /\ \E sorted \in SortIndex(upload_df) :
       /\ upload_df' = sorted
       /\ upload_csv' = sorted
  /\ csv_written' = TRUE
  /\ pc' = PhaseAfter("generate")
  /\ idx' = 1
  /\ UNCHANGED <<drive_mounted, dir_listing, pyramidal_dir, upload_dir,
                 backup_dir, clean_file_list, s3, attempted, failed,
                 extract_vars>>

\* One pass of the loop of aws_s3_upload; s3.upload_file returns.
UploadFile ==
  /\ pc = "upload"
  /\ idx <= Len(clean_file_list)
  /\ attempted' = Append(attempted, clean_file_list[idx])
  /\ s3' = s3 \cup {clean_file_list[idx]}
  /\ idx' = idx + 1
  /\ UNCHANGED <<pc, upload_csv, drive_mounted, dir_listing, pyramidal_dir,
                 upload_dir, backup_dir, clean_file_list, upload_df,
                 csv_written, failed, extract_vars>>

\* s3.upload_file raises: nothing catches it, the script ends.
UploadFileFails ==
  /\ pc = "upload"
  /\ idx <= Len(clean_file_list)
  /\ attempted' = Append(attempted, clean_file_list[idx])
  /\ failed' = failed \cup {clean_file_list[idx]}
  /\ pc' = "crashed"
  /\ UNCHANGED <<upload_csv, drive_mounted, dir_listing, pyramidal_dir,
                 upload_dir, backup_dir, clean_file_list, idx, upload_df,
                 csv_written, s3, extract_vars>>

\* The loop of aws_s3_upload is over: print('done').
UploadReturn ==
  /\ pc = "upload"
  /\ idx > Len(clean_file_list)
  /\ pc' = PhaseAfter("upload")
  /\ idx' = 1
  /\ UNCHANGED <<upload_csv, drive_mounted, dir_listing, pyramidal_dir,
                 upload_dir, backup_dir, clean_file_list, upload_df,
                 csv_written, s3, attempted, failed, extract_vars>>

\* An upload.csv left by an earlier run.
EarlierUploadCsv ==
  { <<>>,
    << SynthesizeRow(<<"report", "_", "rp", "_", "01", ".", "pdf">>,
                     [ok |-> FALSE, width |-> 0, height |-> 0]).row >> }

InitUpload ==
  /\ pc = "check"
  /\ drive_mounted \in BOOLEAN
  /\ dir_listing \in DistinctSeqs(FileNames, MaxFiles)
  /\ pyramidal_dir = {dir_listing[i] : i \in DOMAIN dir_listing}
  /\ upload_dir = {}
  /\ backup_dir = {}
  /\ clean_file_list = <<>>
  /\ idx = 1
  /\ upload_df = <<>>
  /\ upload_csv \in EarlierUploadCsv
  /\ csv_written = FALSE
  /\ s3 = {}
  /\ attempted = <<>>
  /\ failed = {}
  /\ export_csv = <<>>
  /\ identifiers_csv = <<>>
  /\ items_csv = <<>>
  /\ export_df = <<>>
  /\ identifiers_df = <<>>
  /\ pre_identifiers = <<>>
  /\ pre_items = <<>>
  /\ runs = 0

NextUpload ==
  \/ CheckStaging
  \/ MoveFile
  \/ MoveFileFails
  \/ MoveReturn
  \/ GenerateRow
  \/ GenerateWrite
  \/ UploadFile
  \/ UploadFileFails
  \/ UploadReturn

SpecUpload == InitUpload /\ [][NextUpload]_vars


\* ------------------------------------- extract_omeka_csv_export_data.py
\* Keys of the identifier registry and of the export.
Identifiers == { <<"K1">>, <<"K2">> }

\* Rows identifiers.csv may hold: not yet reconciled, not yet reconciled
\* with an item_id filled in, reconciled.
RegistryRows ==
  { [identifier |-> k, omeka_id |-> c[1], item_id |-> c[2],
     other_columns |-> "kept"] :
      k \in Identifiers,
      c \in { <<<<>>, "">>, <<<<>>, "7">>, <<<<"OLD">>, "7">> } }

\* Values of the file column of export.csv.
FileUrls ==
  { <<"https:", "/", "/", "host", "/", "path", "/", "AB123", ".", "tif">>,
    <<"files", ".", "d", "/", "CD", ".", "x", ".", "y">>,
    <<"https:", "/", "/", "host", "/", "path", "/">> }

ExportRows ==
  { [identifier |-> k, file |-> u, item_id |-> "999"] :
      k \in Identifiers, u \in FileUrls }

\* omeka_file_url.split('/')[-1].split('.')[-1]: the extension, not the name.
OmekaFileIdentifierLastPart(omeka_file_url) ==
  LET omeka_file_name == LastOf(Split(omeka_file_url, "/"))
  IN  LastOf(Split(omeka_file_name, "."))

\* omeka_file_url.split('/')[-1].split('.')[0]
OmekaFileIdentifier(omeka_file_url) ==
  LET omeka_file_name == LastOf(Split(omeka_file_url, "/"))
  IN  Split(omeka_file_name, ".")[1]

\* export_df.loc[identifier]: the rows of the export under that label.
ExportLoc(export, identifier) ==
  SelectSeq(export, LAMBDA r : r.identifier = identifier)

\* identifiers_df[column] = value: the whole column is assigned.
SetCellsWholeColumn(df, identifier, omeka_file_identifier, omeka_item_id) ==
  [i \in DOMAIN df |->
     [df[i] EXCEPT !.omeka_id = omeka_file_identifier,
                   !.item_id = omeka_item_id]]

\* identifiers_df.loc[identifier, column] = value, for both columns: every
\* row under that label is assigned.
SetCells(df, identifier, omeka_file_identifier, omeka_item_id) ==
  [i \in DOMAIN df |->
     IF df[i].identifier = identifier
     THEN [df[i] EXCEPT !.omeka_id = omeka_file_identifier,
                        !.item_id = omeka_item_id]
     ELSE df[i]]

\* The loop body with the lookup guarded: a row without a match is skipped.
ReconcileBodySkipping(df, export, row) ==
  IF row.omeka_id = <<>>
  THEN LET found == ExportLoc(export, row.identifier)
       IN  IF Len(found) = 0
           THEN [raised |-> FALSE, df |-> df]
           ELSE IF Len(found) > 1
           THEN [raised |-> TRUE, df |-> df]
           ELSE [raised |-> FALSE,
                 df |-> SetCells(df, row.identifier,
                                 OmekaFileIdentifier(found[1].file),
                                 found[1].item_id)]
  ELSE [raised |-> FALSE, df |-> df]

\* The body of the reconciliation loop for one row of iterrows(): the
\* dataframe after it, or raised when export_df.loc[identifier] finds no row
\* (KeyError) or several (a Series has no split).
ReconcileBody(df, export, row) ==
  IF row.omeka_id = <<>>
  THEN LET found == ExportLoc(export, row.identifier)
       IN  IF Len(found) # 1
           THEN [raised |-> TRUE, df |-> df]
           ELSE [raised |-> FALSE,
                 df |-> SetCells(df, row.identifier,
                                 OmekaFileIdentifier(found[1].file),
                                 found[1].item_id)]
  ELSE [raised |-> FALSE, df |-> df]

\* An append that leaves out the rows whose identifier items.csv already has.
AppendFramesNewKeysOnly(items_file_df, upload_file_df) ==
  items_file_df \o
    SelectSeq(upload_file_df,
              LAMBDA r : \A i \in DOMAIN items_file_df :
                            items_file_df[i].identifier # r.identifier)

\* items_file_df.append(upload_file_df, ignore_index=True)
AppendFrames(items_file_df, upload_file_df) == items_file_df \o upload_file_df

\* Read export.csv and identifiers.csv.
ReadTables ==
  /\ pc = "read"
  /\ export_df' = export_csv
  /\ identifiers_df' = identifiers_csv
  /\ pre_identifiers' = identifiers_csv
  /\ pre_items' = items_csv
  /\ idx' = 1
  /\ pc' = "reconcile"
  /\ UNCHANGED <<upload_csv, drive_mounted, dir_listing, pyramidal_dir,
                 upload_dir, backup_dir, clean_file_list, upload_df,
                 csv_written, s3, attempted, failed, export_csv,
                 identifiers_csv, items_csv, runs>>

\* One pass of the loop over identifiers_df.iterrows().  The row handed out
\* is the row as it is now or as it was when the loop began, depending on
\* whether iterrows() walks a view or a copy of the values.
ReconcileRow ==
  /\ pc = "reconcile"
  /\ idx <= Len(identifiers_df)
  /\ \E row \in {identifiers_df[idx], pre_identifiers[idx]} :
       LET r == ReconcileBody(identifiers_df, export_df, row)
       IN  IF r.raised
           THEN /\ pc' = "crashed"
                /\ UNCHANGED <<idx, identifiers_df>>
           ELSE /\ identifiers_df' = r.df
                /\ idx' = idx + 1
                /\ pc' = pc
  /\ UNCHANGED <<upload_csv, drive_mounted, dir_listing, pyramidal_dir,
                 upload_dir, backup_dir, clean_file_list, upload_df,
                 csv_written, s3, attempted, failed, export_csv,
                 identifiers_csv, items_csv, export_df, pre_identifiers,
                 pre_items, runs>>

\* Write the updated identifiers DataFrame to identifiers.csv.
WriteIdentifiers ==
  /\ pc = "reconcile"
  /\ idx > Len(identifiers_df)
  /\ identifiers_csv' = identifiers_df
  /\ pc' = "accumulate"
  /\ UNCHANGED <<upload_csv, upload_vars, export_csv, items_csv, export_df,
                 identifiers_df, pre_identifiers, pre_items, runs>>

\* Copy the uploaded data into items.csv.
AccumulateItems ==
  /\ pc = "accumulate"
  /\ items_csv' = AppendFrames(items_csv, upload_csv)
  /\ pc' = "done"
  /\ UNCHANGED <<upload_csv, upload_vars, export_csv, identifiers_csv,
                 export_df, identifiers_df, pre_identifiers, pre_items, runs>>

\* The operator runs the script again over the files the last run left.
RunAgain ==
  /\ pc = "done"
  /\ runs < MaxRuns
  /\ runs' = runs + 1
  /\ pc' = "read"
  /\ UNCHANGED <<upload_csv, upload_vars, export_csv, identifiers_csv,
                 items_csv, export_df, identifiers_df, pre_identifiers,
                 pre_items>>

\* upload.csv as the upload script left it for the batch being recorded.
FinishedUploadCsv ==
  { <<>>,
    << SynthesizeRow(<<"report", "_", "rp", "_", "01", ".", "pdf">>,
                     [ok |-> FALSE, width |-> 0, height |-> 0]).row,
       SynthesizeRow(<<"zoo", "_", "kcz", "_", "chimp", "_", "ph", "_", "00",
                       ".", "tif">>,
                     [ok |-> TRUE, width |-> 640, height |-> 480]).row >> }

\* items.csv as earlier runs left it.
EarlierItemsCsv ==
  { << SynthesizeRow(<<"report", "_", "rp", "_", "01", ".", "pdf">>,
                     [ok |-> FALSE, width |-> 0, height |-> 0]).row >> }

InitExtract ==
  /\ pc = "read"
  /\ drive_mounted = TRUE
  /\ dir_listing = <<>>
  /\ pyramidal_dir = {}
  /\ upload_dir = {}
  /\ backup_dir = {}
  /\ clean_file_list = <<>>
  /\ idx = 1
  /\ upload_df = <<>>
  /\ upload_csv \in FinishedUploadCsv
  /\ csv_written = FALSE
  /\ s3 = {}
  /\ attempted = <<>>
  /\ failed = {}
  /\ export_csv \in SeqsUpTo(ExportRows, MaxExport)
  /\ identifiers_csv \in SeqsUpTo(RegistryRows, MaxRows)
  /\ items_csv \in EarlierItemsCsv
  /\ export_df = <<>>
  /\ identifiers_df = <<>>
  /\ pre_identifiers = <<>>
  /\ pre_items = <<>>
  /\ runs = 1

NextExtract ==
  \/ ReadTables
  \/ ReconcileRow
  \/ WriteIdentifiers
  \/ AccumulateItems
  \/ RunAgain

SpecExtract == InitExtract /\ [][NextExtract]_vars


\* ------------------------------------------------------------- properties
\* The elements of a sequence.
Range(q) == {q[i] : i \in DOMAIN q}

\* file is the stem image_id followed by a dot and an extension.
IsStemOf(image_id, file) ==
  /\ Len(file) = Len(image_id) + 2
  /\ SubSeq(file, 1, Len(image_id)) = image_id
  /\ file[Len(file) - 1] = "."

\* The table t has a row keyed by the stem of file.
HasRowFor(t, file) == \E i \in DOMAIN t : IsStemOf(t[i].identifier, file)

\* The part of the stem between the last two underscores, when there is one.
HasUnknownFormatCode(file) ==
  \E a, b \in 1..Len(file) :
    /\ a < b
    /\ file[a] = "_" /\ file[b] = "_"
    /\ \A k \in (a + 1)..(b - 1) : file[k] # "_"
    /\ \A k \in (b + 1)..Len(file) : file[k] # "_"
    /\ \/ b # a + 2
       \/ file[a + 1] \notin DOMAIN ORIGINAL_FORMAT_MAP
       \/ file[a + 1] \notin DOMAIN CREATOR_MAP

HasUnknownExtension(file) == file[Len(file)] \notin DOMAIN FORMAT_MAP

\* C1: at every point of a run of the upload script, every file already
\* uploaded to the bucket has a row keyed by its stem in the upload.csv this
\* run has written, and so does every other file of the batch: no file is
\* uploaded before the table of the whole batch is on disk.
C1_UploadedFileHasRow ==
  s3 # {} =>
    /\ csv_written
    /\ \A f \in s3 \cup Range(clean_file_list) : HasRowFor(upload_csv, f)

C1_Witness ==
  /\ pc = "done"
  /\ Cardinality(s3) = 2
  /\ Len(upload_csv) = 2

\* C5: when a file name of the batch has an extension that FORMAT_MAP lacks
\* or a format code that ORIGINAL_FORMAT_MAP or CREATOR_MAP lacks, no
\* upload.csv is written, no file is uploaded, and the files moved to the
\* upload directory stay there.
C5_UnknownCodeAbortsBatch ==
  (\E f \in Range(clean_file_list) :
      HasUnknownExtension(f) \/ HasUnknownFormatCode(f))
  => /\ ~csv_written
     /\ upload_csv \in EarlierUploadCsv
     /\ s3 = {}
     /\ attempted = <<>>
     /\ pc \notin {"upload", "done"}
     /\ Range(clean_file_list) \subseteq upload_dir
     /\ Range(clean_file_list) \cap pyramidal_dir = {}

C5_Witness ==
  /\ pc = "crashed"
  /\ Len(clean_file_list) = 2
  /\ HasUnknownFormatCode(clean_file_list[2])
  /\ Len(upload_df) = 1
  /\ Range(clean_file_list) \subseteq upload_dir

\* C6: when the upload of one file fails, the upload of every file after it
\* in the batch list is still attempted (stated of the run once it has ended).
C6_LaterFilesStillAttempted ==
  (pc \in {"done", "crashed"} /\ failed # {})
  => Range(clean_file_list) \subseteq Range(attempted)

\* C7 as claimed: once the table is written it has exactly one row per
\* distinct stem of the batch.
C7_OneRowPerStem ==
  csv_written =>
    Len(upload_csv) =
      Cardinality({SplitExtRoot(clean_file_list[j]) :
                     j \in DOMAIN clean_file_list})

\* C7 as amended: once the table is written it has exactly one row per file
\* name of the batch, the row built from that file name under that file
\* name's stem; file names that share a stem each keep their row.
C7_OneRowPerFileName ==
  csv_written =>
    /\ Len(upload_csv) = Len(clean_file_list)
    /\ \A j \in DOMAIN clean_file_list :
         \E i \in DOMAIN upload_csv :
           /\ IsStemOf(upload_csv[i].identifier, clean_file_list[j])
           /\ LET u == upload_csv[i].upload_url
                  f == clean_file_list[j]
              IN  /\ Len(u) > Len(f)
                  /\ SubSeq(u, Len(u) - Len(f) + 1, Len(u)) = f
                  /\ u[Len(u) - Len(f)] = "/"

C7_Witness ==
  /\ csv_written
  /\ Len(upload_csv) = 2
  /\ upload_csv[1].identifier = upload_csv[2].identifier
  /\ upload_csv[1].dc_format # upload_csv[2].dc_format

\* The tags cell the claim describes for a stem: the labels of those of the
\* first two parts that TAGS_MAP holds, in order, with a comma only between
\* two labels.
ExpectedTags(image_id) ==
  LET parts == Split(image_id, "_")
      known(k) == k <= Len(parts) /\ AsKey(parts[k]) \in DOMAIN TAGS_MAP
      label(k) == TAGS_MAP[AsKey(parts[k])]
  IN  IF known(1) /\ known(2) THEN <<label(1), ",", label(2)>>
      ELSE IF known(1) THEN <<label(1)>>
      ELSE IF known(2) THEN <<label(2)>>
      ELSE <<>>

\* C8: the tags of every row built are the labels of the first two parts of
\* the stem that are keys of TAGS_MAP, in the order of the parts, joined by
\* commas, with no segment for a part that is not a key.
C8_TagsOfFirstTwoParts ==
  \A i \in DOMAIN upload_df :
    upload_df[i].tags = ExpectedTags(upload_df[i].identifier)

C8_Witness ==
  /\ pc = "generate"
  /\ \E i, j, k \in DOMAIN upload_df :
       /\ upload_df[i].tags = <<"zoo", ",", "Kansas City">>
       /\ upload_df[j].tags = <<"zoo">>
       /\ upload_df[j].identifier[1] = "unknown"
       /\ upload_df[k].tags = <<>>

\* The registry was written by the run in progress.
RegistryWritten == pc \in {"accumulate", "done"}

\* omeka_id is the last segment of the path of file, up to its first dot.
IsFileIdentifierOf(omeka_id, file) ==
  /\ \A k \in DOMAIN omeka_id : omeka_id[k] \notin {"/", "."}
  /\ \E a \in 0..Len(file) :
       /\ a = 0 \/ file[a] = "/"
       /\ \A k \in (a + 1)..Len(file) : file[k] # "/"
       /\ SubSeq(file, a + 1, a + Len(omeka_id)) = omeka_id
       /\ a + Len(omeka_id) <= Len(file)
       /\ a + Len(omeka_id) = Len(file) \/ file[a + Len(omeka_id) + 1] = "."

\* C2 as claimed: a registry row whose omeka_id was not empty before the
\* pass is the same row after it.
C2_ReconciledRowUntouched ==
  RegistryWritten =>
    /\ Len(identifiers_csv) = Len(pre_identifiers)
    /\ \A p \in DOMAIN pre_identifiers :
         pre_identifiers[p].omeka_id # <<>>
         => identifiers_csv[p] = pre_identifiers[p]

\* C3: after a pass, a registry row whose omeka_id was empty and whose key
\* has a row in the export has for omeka_id the last path segment of that
\* row's file up to its first dot, and for item_id that row's Item Id.
C3_FilledFromExport ==
  RegistryWritten =>
    \A p \in DOMAIN pre_identifiers : \A e \in DOMAIN export_csv :
      (/\ pre_identifiers[p].omeka_id = <<>>
       /\ export_csv[e].identifier = pre_identifiers[p].identifier)
      => /\ IsFileIdentifierOf(identifiers_csv[p].omeka_id, export_csv[e].file)
         /\ identifiers_csv[p].item_id = export_csv[e].item_id

C3_Witness ==
  /\ pc = "accumulate"
  /\ \E p \in DOMAIN pre_identifiers : \E e \in DOMAIN export_csv :
       /\ pre_identifiers[p].omeka_id = <<>>
       /\ export_csv[e].identifier = pre_identifiers[p].identifier
       /\ export_csv[e].file =
            <<"https:", "/", "/", "host", "/", "path", "/", "AB123", ".", "tif">>
       /\ identifiers_csv[p].omeka_id = <<"AB123">>
       /\ identifiers_csv[p].item_id = "999"

\* Row p of the registry as read has an empty omeka_id and no export row.
MissingMatch(p) ==
  /\ pre_identifiers[p].omeka_id = <<>>
  /\ \A e \in DOMAIN export_csv :
       export_csv[e].identifier # pre_identifiers[p].identifier

\* C4: when a registry row with an empty omeka_id has no row in the export,
\* the loop does not get past that row, the run does not complete,
\* identifiers.csv is not rewritten and items.csv is not appended to.
C4_MissingMatchIsFatal ==
  \A p \in DOMAIN pre_identifiers :
    (pc # "read" /\ MissingMatch(p))
    => /\ pc \in {"reconcile", "crashed"}
       /\ idx <= p
       /\ identifiers_csv = pre_identifiers
       /\ items_csv = pre_items

C4_Witness ==
  /\ pc = "crashed"
  /\ idx = 2
  /\ MissingMatch(2)
  /\ identifiers_df # pre_identifiers
  /\ identifiers_csv = pre_identifiers

\* C9: the accumulation leaves in items.csv its earlier rows, unchanged and
\* in order, followed by every row of upload.csv in order.
C9_ItemsAppended ==
  pc = "done" =>
    /\ Len(items_csv) = Len(pre_items) + Len(upload_csv)
    /\ \A i \in DOMAIN pre_items : items_csv[i] = pre_items[i]
    /\ \A j \in DOMAIN upload_csv :
         items_csv[Len(pre_items) + j] = upload_csv[j]

C9_Witness ==
  /\ pc = "done"
  /\ runs = 2
  /\ Len(upload_csv) = 2
  /\ Len(items_csv) = 5
  /\ items_csv[2] = upload_csv[1] /\ items_csv[4] = upload_csv[1]
  /\ items_csv[1] = upload_csv[1]

\* C10 as claimed: the pass changes omeka_id or item_id of a row only when
\* both were blank before it, and deletes no row.
C10_ChangedOnlyWhenBothBlank ==
  RegistryWritten =>
    /\ Len(identifiers_csv) = Len(pre_identifiers)
    /\ \A p \in DOMAIN pre_identifiers :
         (\/ identifiers_csv[p].omeka_id # pre_identifiers[p].omeka_id
          \/ identifiers_csv[p].item_id # pre_identifiers[p].item_id)
         => /\ pre_identifiers[p].omeka_id = <<>>
            /\ pre_identifiers[p].item_id = ""

\* C10 as amended: the pass changes omeka_id or item_id of a row only when
\* the omeka_id of that row, or of a row with the same key, was empty before
\* it, whatever the item_id was; it deletes no row and changes no key and
\* no other column.
C10_ChangedOnlyWhenOmekaIdBlank ==
  RegistryWritten =>
    /\ Len(identifiers_csv) = Len(pre_identifiers)
    /\ \A p \in DOMAIN pre_identifiers :
         /\ identifiers_csv[p].identifier = pre_identifiers[p].identifier
         /\ identifiers_csv[p].other_columns = pre_identifiers[p].other_columns
         /\ (\/ identifiers_csv[p].omeka_id # pre_identifiers[p].omeka_id
             \/ identifiers_csv[p].item_id # pre_identifiers[p].item_id)
            => \E q \in DOMAIN pre_identifiers :
                 /\ pre_identifiers[q].identifier = pre_identifiers[p].identifier
                 /\ pre_identifiers[q].omeka_id = <<>>

C10_Witness ==
  /\ pc = "accumulate"
  /\ \E p, q \in DOMAIN pre_identifiers :
       /\ pre_identifiers[p].omeka_id = <<>>
       /\ pre_identifiers[p].item_id = "7"
       /\ identifiers_csv[p].item_id = "999"
       /\ pre_identifiers[q].omeka_id # <<>>
       /\ identifiers_csv[q] = pre_identifiers[q]

====
